---- MODULE Spec2Model ----
(***************************************************************************)
(* Tool CRUD + semantic search API (FastAPI / SQLAlchemy / Qdrant).        *)
(*                                                                         *)
(* State: the record store (tables tools and search_history with the       *)
(* tools id sequence), the vector collection, and one record per request   *)
(* slot holding the handler's position and its local variables.  Every     *)
(* statement of a handler that talks to a store is one atomic step, so     *)
(* that concurrent requests interleave between the statements as they do   *)
(* between SQL statements / HTTP calls to the index in the program.        *)
(* The record store runs PostgreSQL's default READ COMMITTED isolation:    *)
(* each statement sees the rows committed so far.                          *)
(***************************************************************************)
EXTENDS Integers, Sequences, FiniteSets, TLC

\* ---------------------------------------------------------------- bounds
NumProcs == 2        \* request slots served concurrently
MaxTools == 2        \* ids the tools_id_seq hands out in one run
MaxRequests == 4     \* requests accepted in one run
MaxLimit == 2        \* largest `limit` a search / history request carries
MaxFaults == 1       \* calls to a store or to the embedding model that fail in one run

\* ------------------------------------------------------ program constants
ScoreFloor == 3      \* score_threshold=0.3, in tenths

Procs == 1..NumProcs
Ids == 1..MaxTools
Queries == {"q_alpha", "q_beta"}

\* Validated request bodies (schemas.ToolBase): name, description, tags.
ToolBase ==
    { [name |-> "alpha", description |-> "d1", tags |-> <<>>],
      [name |-> "alpha", description |-> "d2", tags |-> <<"t">>],
      [name |-> "beta",  description |-> "d1", tags |-> <<>>] }

NoFields == [name |-> "", description |-> "", tags |-> <<>>]

VARIABLES
    tools,          \* table tools: function from the ids of the rows to their fields
    nextId,         \* tools_id_seq: the id the next INSERT gets
    history,        \* table search_history, in insertion order: records [query, results]
    points,         \* the Qdrant collection: function from point ids to payloads
    faults,         \* how many more calls to a store / the embedding model may fail
    proc,           \* per request slot: position and locals of the handler
    nreq,           \* requests accepted so far
    deleted_ok,     \* ids whose DELETE request has been answered with success
    stale           \* ids of the points written before the last start of the application

vars == <<tools, nextId, history, points, faults, proc, nreq, deleted_ok, stale>>

\* ------------------------------------------------------------- responses
Response(status, detail, body) == [status |-> status, detail |-> detail, body |-> body]

NoResponse == Response(0, "", <<>>)

\* models.Tool as serialised by schemas.ToolResponse
ToolResponse(id, f) ==
    [id |-> id, name |-> f.name, description |-> f.description, tags |-> f.tags]

Idle ==
    [pc |-> "idle", op |-> "none", tool_id |-> 0, tool |-> NoFields,
     db_tool |-> NoFields, query |-> "", limit |-> 0, search_results |-> <<>>,
     valid_results |-> <<>>, history_results |-> <<>>, i |-> 1, j |-> 1,
     history_items |-> <<>>, resp |-> NoResponse,
     err |-> "", committed |-> FALSE, vec_called |-> FALSE, vec_ok |-> FALSE,
     hist_ok |-> FALSE, seen_deleted |-> {}, seen_stale |-> {}]

\* what a handler leaves in its slot when it answers
Answer(rec, r) == [rec EXCEPT !.pc = "done", !.resp = r]

\* a request is accepted by the first free slot
Accept(p) ==
    /\ proc[p].pc = "idle"
    /\ \A q \in Procs : q < p => proc[q].pc # "idle"
    /\ nreq < MaxRequests

\* a call to a store or to the embedding model raises
Fails == faults > 0 /\ faults' = faults - 1

\* the outcomes of a call that may raise: TRUE when it went through
CallOutcomes == IF faults > 0 THEN {TRUE, FALSE} ELSE {TRUE}

\* the failures left after a call with this outcome
After(ok) == IF ok THEN faults ELSE faults - 1

\* ------------------------------------------------------------ record store
\* crud.get_tool: the row with this id, None when there is none
get_tool(tool_id) == tool_id \in DOMAIN tools

\* mutant: the column is declared without unique=True
NameTaken_no_index(name, self_id) == FALSE

\* the unique index on tools.name: another row already holds the name
NameTaken(name, self_id) ==
    \E i \in DOMAIN tools : i # self_id /\ tools[i].name = name

\* a row added to / removed from a table
WithRow(table, id, f) == [i \in DOMAIN table \cup {id} |-> IF i = id THEN f ELSE table[i]]

WithoutRow(table, id) == [i \in DOMAIN table \ {id} |-> table[i]]

\* ------------------------------------------------------------ vector index
\* vector_db.upsert_tool: the payload stored beside the embedding
Payload(tool_id, f) ==
    [tool_id |-> tool_id, name |-> f.name, description |-> f.description, tags |-> f.tags]

\* the collection after upsert_tool(tool_id, ...) when every call in it succeeded
upsert_tool(tool_id, f) == WithRow(points, tool_id, Payload(tool_id, f))

\* the collection after delete_tool(tool_id) when the call succeeded
delete_tool(tool_id) == WithoutRow(points, tool_id)

\* ------------------------------------------------------------------- Init
\* lifespan -> init_db: tables dropped and recreated, sequences restarted at 1
Init ==
    /\ tools = <<>>
    /\ nextId = 1
    /\ history = <<>>
    /\ points = <<>>
    /\ faults = MaxFaults
    /\ proc = [p \in Procs |-> Idle]
    /\ nreq = 0
    /\ deleted_ok = {}
    /\ stale = {}

\* ----------------------------------------------------------------- Create
\* main.create_tool: crud.create_tool returned None
CreateRejected == Response(400, "Tool with this name already exists", <<>>)

\* mutant: a failed upsert is reported to the caller as a failed create
create_tool_result_strict(tool_id, db_tool, upsert_ok) ==
    IF upsert_ok THEN Response(201, "", <<ToolResponse(tool_id, db_tool)>>) ELSE CreateRejected

\* main.create_tool: crud.create_tool returned db_tool, whatever upsert_tool returned
create_tool_result(tool_id, db_tool, upsert_ok) ==
    Response(201, "", <<ToolResponse(tool_id, db_tool)>>)

\* crud.create_tool, db.add + db.commit: INSERT and COMMIT
create_tool_commit(p, tool) ==
    /\ Accept(p)
    /\ nextId <= MaxTools
    /\ nreq' = nreq + 1
    /\ LET me == [Idle EXCEPT !.op = "create", !.tool = tool, !.seen_deleted = deleted_ok] IN
       \/ \* IntegrityError: rollback, return None
          /\ NameTaken(tool.name, 0)
          /\ proc' = [proc EXCEPT ![p] = Answer([me EXCEPT !.err = "IntegrityError"], CreateRejected)]
          /\ UNCHANGED <<tools, nextId, faults>>
       \/ \* any other exception: rollback, return None
          /\ Fails
          /\ proc' = [proc EXCEPT ![p] = Answer([me EXCEPT !.err = "Exception"], CreateRejected)]
          /\ UNCHANGED <<tools, nextId>>
       \/ /\ ~NameTaken(tool.name, 0)
          /\ tools' = WithRow(tools, nextId, tool)
          /\ nextId' = nextId + 1
          /\ proc' = [proc EXCEPT ![p] = [me EXCEPT !.pc = "create_refresh",
                                                   !.tool_id = nextId, !.committed = TRUE]]
          /\ UNCHANGED faults
    /\ UNCHANGED <<history, points, deleted_ok, stale>>

\* crud.create_tool, db.refresh(db_tool): SELECT of the row just inserted
create_tool_refresh(p) ==
    /\ proc[p].pc = "create_refresh"
    /\ \/ /\ get_tool(proc[p].tool_id)
          /\ proc' = [proc EXCEPT ![p] = [@ EXCEPT !.pc = "create_upsert",
                                                  !.db_tool = tools[proc[p].tool_id]]]
          /\ UNCHANGED faults
       \/ \* the row is gone (InvalidRequestError): except Exception, return None
          /\ ~get_tool(proc[p].tool_id)
          /\ proc' = [proc EXCEPT ![p] = Answer([@ EXCEPT !.err = "Stale"], CreateRejected)]
          /\ UNCHANGED faults
       \/ \* the SELECT raises: except Exception, return None
          /\ Fails
          /\ proc' = [proc EXCEPT ![p] = Answer([@ EXCEPT !.err = "Exception"], CreateRejected)]
    /\ UNCHANGED <<tools, nextId, history, points, nreq, deleted_ok, stale>>

\* crud.create_tool, upsert_tool(...) and return db_tool
create_tool_upsert(p) ==
    /\ proc[p].pc = "create_upsert"
    /\ \E ok \in CallOutcomes :
          /\ points' = IF ok THEN upsert_tool(proc[p].tool_id, proc[p].db_tool) ELSE points
          /\ stale' = IF ok THEN stale \ {proc[p].tool_id} ELSE stale
          /\ faults' = After(ok)
          /\ proc' = [proc EXCEPT ![p] =
                 Answer([@ EXCEPT !.vec_called = TRUE, !.vec_ok = ok],
                        create_tool_result(proc[p].tool_id, proc[p].db_tool, ok))]
    /\ UNCHANGED <<tools, nextId, history, nreq, deleted_ok>>

\* ----------------------------------------------------------------- Update
\* main.update_tool: crud.update_tool returned None
UpdateRejected == Response(404, "Tool not found or name already exists", <<>>)

\* the row an ORM flush writes: only the attributes that differ from the loaded ones
Flushed(row, loaded, new) ==
    [name        |-> IF new.name # loaded.name THEN new.name ELSE row.name,
     description |-> IF new.description # loaded.description THEN new.description ELSE row.description,
     tags        |-> IF new.tags # loaded.tags THEN new.tags ELSE row.tags]

\* crud.update_tool, db.query(...).first(): SELECT of the row
update_tool_query(p, tool_id, tool) ==
    /\ Accept(p)
    /\ nreq' = nreq + 1
    /\ LET me == [Idle EXCEPT !.op = "update", !.tool_id = tool_id, !.tool = tool,
                              !.seen_deleted = deleted_ok] IN
       \/ /\ get_tool(tool_id)
          /\ proc' = [proc EXCEPT ![p] = [me EXCEPT !.pc = "update_commit", !.db_tool = tools[tool_id]]]
          /\ UNCHANGED faults
       \/ \* if not db_tool: return None
          /\ ~get_tool(tool_id)
          /\ proc' = [proc EXCEPT ![p] = Answer([me EXCEPT !.err = "NotFound"], UpdateRejected)]
          /\ UNCHANGED faults
       \/ \* except Exception: return None
          /\ Fails
          /\ proc' = [proc EXCEPT ![p] = Answer([me EXCEPT !.err = "Exception"], UpdateRejected)]
    /\ UNCHANGED <<tools, nextId, history, points, deleted_ok, stale>>

\* crud.update_tool, attribute assignments + db.commit: UPDATE ... WHERE id and COMMIT
update_tool_commit(p) ==
    /\ proc[p].pc = "update_commit"
    /\ LET id == proc[p].tool_id
           loaded == proc[p].db_tool
           new == proc[p].tool
       IN
       \/ \* nothing differs from the loaded row: no UPDATE is emitted
          /\ new = loaded
          /\ proc' = [proc EXCEPT ![p] = [@ EXCEPT !.pc = "update_refresh", !.committed = TRUE]]
          /\ UNCHANGED <<tools, faults>>
       \/ \* the UPDATE matches no row (StaleDataError): except Exception, return None
          /\ new # loaded
          /\ ~get_tool(id)
          /\ proc' = [proc EXCEPT ![p] = Answer([@ EXCEPT !.err = "Stale"], UpdateRejected)]
          /\ UNCHANGED <<tools, faults>>
       \/ \* the commit raises: except Exception, rollback, return None
          /\ Fails
          /\ proc' = [proc EXCEPT ![p] = Answer([@ EXCEPT !.err = "Exception"], UpdateRejected)]
          /\ UNCHANGED tools
       \/ \* IntegrityError: rollback, return None
          /\ new # loaded /\ get_tool(id)
          /\ new.name # loaded.name /\ NameTaken(new.name, id)
          /\ proc' = [proc EXCEPT ![p] = Answer([@ EXCEPT !.err = "IntegrityError"], UpdateRejected)]
          /\ UNCHANGED <<tools, faults>>
       \/ /\ new # loaded /\ get_tool(id)
          /\ ~(new.name # loaded.name /\ NameTaken(new.name, id))
          /\ tools' = [tools EXCEPT ![id] = Flushed(tools[id], loaded, new)]
          /\ proc' = [proc EXCEPT ![p] = [@ EXCEPT !.pc = "update_refresh", !.committed = TRUE]]
          /\ UNCHANGED faults
    /\ UNCHANGED <<nextId, history, points, nreq, deleted_ok, stale>>

\* crud.update_tool, db.refresh(db_tool): SELECT of the row
update_tool_refresh(p) ==
    /\ proc[p].pc = "update_refresh"
    /\ \/ /\ get_tool(proc[p].tool_id)
          /\ proc' = [proc EXCEPT ![p] = [@ EXCEPT !.pc = "update_upsert",
                                                  !.db_tool = tools[proc[p].tool_id]]]
          /\ UNCHANGED faults
       \/ \* the row is gone (InvalidRequestError): except Exception, return None
          /\ ~get_tool(proc[p].tool_id)
          /\ proc' = [proc EXCEPT ![p] = Answer([@ EXCEPT !.err = "Stale"], UpdateRejected)]
          /\ UNCHANGED faults
       \/ /\ Fails
          /\ proc' = [proc EXCEPT ![p] = Answer([@ EXCEPT !.err = "Exception"], UpdateRejected)]
    /\ UNCHANGED <<tools, nextId, history, points, nreq, deleted_ok, stale>>

\* crud.update_tool, upsert_tool(...) and return db_tool
update_tool_upsert(p) ==
    /\ proc[p].pc = "update_upsert"
    /\ \E ok \in CallOutcomes :
          /\ points' = IF ok THEN upsert_tool(proc[p].tool_id, proc[p].db_tool) ELSE points
          /\ stale' = IF ok THEN stale \ {proc[p].tool_id} ELSE stale
          /\ faults' = After(ok)
          /\ proc' = [proc EXCEPT ![p] =
                 Answer([@ EXCEPT !.vec_called = TRUE, !.vec_ok = ok],
                        Response(200, "", <<ToolResponse(proc[p].tool_id, proc[p].db_tool)>>))]
    /\ UNCHANGED <<tools, nextId, history, nreq, deleted_ok>>

\* ----------------------------------------------------------------- Delete
\* main.delete_tool_endpoint: crud.delete_tool_db returned False
DeleteRejected == Response(404, "Tool not found", <<>>)

\* main.delete_tool_endpoint: crud.delete_tool_db returned True
DeleteDone == Response(200, "Tool deleted successfully", <<>>)

\* crud.delete_tool_db, db.query(...).first(): SELECT of the row
delete_tool_db_query(p, tool_id) ==
    /\ Accept(p)
    /\ nreq' = nreq + 1
    /\ LET me == [Idle EXCEPT !.op = "delete", !.tool_id = tool_id, !.seen_deleted = deleted_ok] IN
       \/ /\ get_tool(tool_id)
          /\ proc' = [proc EXCEPT ![p] = [me EXCEPT !.pc = "delete_commit", !.db_tool = tools[tool_id]]]
          /\ UNCHANGED faults
       \/ \* if not db_tool: return False
          /\ ~get_tool(tool_id)
          /\ proc' = [proc EXCEPT ![p] = Answer([me EXCEPT !.err = "NotFound"], DeleteRejected)]
          /\ UNCHANGED faults
       \/ \* except Exception: return False
          /\ Fails
          /\ proc' = [proc EXCEPT ![p] = Answer([me EXCEPT !.err = "Exception"], DeleteRejected)]
    /\ UNCHANGED <<tools, nextId, history, points, deleted_ok, stale>>

\* mutant: the except branch logs the failed commit and falls through to the
\* deletion from the vector index
delete_tool_db_commit_fallthrough(p) ==
    /\ proc[p].pc = "delete_commit"
    /\ \/ /\ tools' = WithoutRow(tools, proc[p].tool_id)
          /\ proc' = [proc EXCEPT ![p] = [@ EXCEPT !.pc = "delete_vector", !.committed = TRUE]]
          /\ UNCHANGED faults
       \/ /\ Fails
          /\ proc' = [proc EXCEPT ![p] = [@ EXCEPT !.pc = "delete_vector", !.err = "Exception"]]
          /\ UNCHANGED tools
    /\ UNCHANGED <<nextId, history, points, nreq, deleted_ok, stale>>

\* crud.delete_tool_db, db.delete + db.commit: DELETE ... WHERE id and COMMIT
\* (a DELETE that matches no row only warns)
delete_tool_db_commit(p) ==
    /\ proc[p].pc = "delete_commit"
    /\ \/ /\ tools' = WithoutRow(tools, proc[p].tool_id)
          /\ proc' = [proc EXCEPT ![p] = [@ EXCEPT !.pc = "delete_vector", !.committed = TRUE]]
          /\ UNCHANGED faults
       \/ \* except Exception: rollback, return False
          /\ Fails
          /\ proc' = [proc EXCEPT ![p] = Answer([@ EXCEPT !.err = "Exception"], DeleteRejected)]
          /\ UNCHANGED tools
    /\ UNCHANGED <<nextId, history, points, nreq, deleted_ok, stale>>

\* mutant: a failed deletion from the vector index is reported to the caller
\* as a failed delete
delete_tool_db_result_strict(vector_ok) == IF vector_ok THEN DeleteDone ELSE DeleteRejected

\* crud.delete_tool_db after the commit: `return True`, whatever delete_tool returned
delete_tool_db_result(vector_ok) == DeleteDone

\* crud.delete_tool_db, delete_tool(tool_id) and return True
delete_tool_db_vector(p) ==
    /\ proc[p].pc = "delete_vector"
    /\ \E ok \in CallOutcomes :
          /\ points' = IF ok THEN delete_tool(proc[p].tool_id) ELSE points
          /\ stale' = IF ok THEN stale \ {proc[p].tool_id} ELSE stale
          /\ faults' = After(ok)
          /\ proc' = [proc EXCEPT ![p] =
                 Answer([@ EXCEPT !.vec_called = TRUE, !.vec_ok = ok], delete_tool_db_result(ok))]
    /\ deleted_ok' = deleted_ok \cup {proc[p].tool_id}
    /\ UNCHANGED <<tools, nextId, history, nreq>>

\* ----------------------------------------------------------------- Search
\* cosine similarity of the embeddings of a query and of a tool's text
\* "name description tags", in tenths (the embedding model is deterministic)
Score(query, payload) ==
    LET wanted == IF query = "q_alpha" THEN "alpha" ELSE "beta" IN
    (IF payload.name = wanted THEN 6 ELSE 2) + (IF payload.description = "d1" THEN 2 ELSE 0)

\* mutant: client.search is called without score_threshold
Hits_no_floor(query) == DOMAIN points

\* client.search(..., score_threshold=0.3): the points at or above the floor
Hits(query) == {id \in DOMAIN points : Score(query, points[id]) >= ScoreFloor}

Min(a, b) == IF a <= b THEN a ELSE b

\* mutant: the handler asks the index for one candidate more than `limit`, to
\* make up for a candidate the existence filter may discard
TopK_backfill(query, limit) ==
    LET n == Min(limit + 1, Cardinality(Hits(query))) IN
    { s \in [1..n -> Hits(query)] :
        /\ \A a, b \in 1..n : a < b =>
              /\ s[a] # s[b]
              /\ Score(query, points[s[a]]) >= Score(query, points[s[b]])
        /\ \A a \in 1..n : \A id \in Hits(query) :
              (\A b \in 1..n : s[b] # id) => Score(query, points[id]) <= Score(query, points[s[a]]) }

\* client.search(..., limit=limit): the `limit` best hits by descending score,
\* ties in the order the index likes
TopK(query, limit) ==
    LET n == Min(limit, Cardinality(Hits(query))) IN
    { s \in [1..n -> Hits(query)] :
        /\ \A a, b \in 1..n : a < b =>
              /\ s[a] # s[b]
              /\ Score(query, points[s[a]]) >= Score(query, points[s[b]])
        /\ \A a \in 1..n : \A id \in Hits(query) :
              (\A b \in 1..n : s[b] # id) => Score(query, points[id]) <= Score(query, points[s[a]]) }

\* vector_db.search_tools: one result dict per scored point
SearchResult(query, id) ==
    [id |-> points[id].tool_id, name |-> points[id].name,
     description |-> points[id].description, tags |-> points[id].tags,
     score |-> Score(query, points[id])]

\* mutant: the read path trusts the index and skips the look-up in the record store
FilterKeeps_unfiltered(result) == result.id # 0

\* `tool_id and crud.get_tool(db, tool_id)` in the three filtering loops
FilterKeeps(result) == result.id # 0 /\ get_tool(result.id)

\* main.semantic_search after search_tools: on to the loops that have something to do
AfterSearch(rec) ==
    IF rec.search_results = <<>>
    THEN [rec EXCEPT !.pc = "history_commit"]
    ELSE [rec EXCEPT !.pc = "search_filter"]

\* main.semantic_search, search_tools(query.query, query.limit)
semantic_search_query(p, query, limit) ==
    /\ Accept(p)
    /\ nreq' = nreq + 1
    /\ LET me == [Idle EXCEPT !.op = "search", !.query = query, !.limit = limit,
                              !.seen_deleted = deleted_ok, !.seen_stale = stale] IN
       \/ \* get_embedding(query) raises: except Exception, return []
          /\ Fails
          /\ proc' = [proc EXCEPT ![p] = AfterSearch([me EXCEPT !.err = "Embedding"])]
       \/ \* client.search raises: except Exception, return []
          /\ Fails
          /\ proc' = [proc EXCEPT ![p] = AfterSearch([me EXCEPT !.vec_called = TRUE])]
       \/ \E s \in TopK(query, limit) :
             /\ proc' = [proc EXCEPT ![p] =
                    AfterSearch([me EXCEPT !.vec_called = TRUE, !.vec_ok = TRUE,
                        !.search_results = [k \in 1..Len(s) |-> SearchResult(query, s[k])]])]
             /\ UNCHANGED faults
    /\ UNCHANGED <<tools, nextId, history, points, deleted_ok, stale>>

\* main.semantic_search, one turn of `for result in search_results`
\* (get_tool answers None as well when its query raises)
semantic_search_filter(p) ==
    /\ proc[p].pc = "search_filter"
    /\ LET me == proc[p]
           result == me.search_results[me.i]
       IN \E ok \in CallOutcomes :
          LET valid == IF ok /\ FilterKeeps(result)
                       THEN Append(me.valid_results, result) ELSE me.valid_results
          IN /\ faults' = After(ok)
             /\ proc' = [proc EXCEPT ![p] =
                   IF me.i < Len(me.search_results)
                   THEN [me EXCEPT !.valid_results = valid, !.i = me.i + 1]
                   ELSE [me EXCEPT !.valid_results = valid, !.i = 1,
                                   !.pc = IF valid = <<>> THEN "history_commit" ELSE "history_filter"]]
    /\ UNCHANGED <<tools, nextId, history, points, nreq, deleted_ok, stale>>

\* crud.create_search_history, one turn of `for result in results`
create_search_history_filter(p) ==
    /\ proc[p].pc = "history_filter"
    /\ LET me == proc[p]
           result == me.valid_results[me.i]
       IN \E ok \in CallOutcomes :
          LET valid == IF ok /\ FilterKeeps(result)
                       THEN Append(me.history_results, result) ELSE me.history_results
          IN /\ faults' = After(ok)
             /\ proc' = [proc EXCEPT ![p] =
                   IF me.i < Len(me.valid_results)
                   THEN [me EXCEPT !.history_results = valid, !.i = me.i + 1]
                   ELSE [me EXCEPT !.history_results = valid, !.i = 1, !.pc = "history_commit"]]
    /\ UNCHANGED <<tools, nextId, history, points, nreq, deleted_ok, stale>>

\* main.semantic_search: the body returned, whatever create_search_history returned
semantic_search_result(valid_results) == Response(200, "", valid_results)

\* main.general_exception_handler: an exception left the handler
InternalError == Response(500, "Internal server error", <<>>)

\* mutant: create_search_history has no try/except, so a failed write of the
\* history row leaves the handler as an exception
create_search_history_commit_raises(p) ==
    /\ proc[p].pc = "history_commit"
    /\ \/ /\ history' = Append(history, [query |-> proc[p].query, results |-> proc[p].history_results])
          /\ proc' = [proc EXCEPT ![p] =
                 Answer([@ EXCEPT !.hist_ok = TRUE], semantic_search_result(proc[p].valid_results))]
          /\ UNCHANGED faults
       \/ /\ Fails
          /\ proc' = [proc EXCEPT ![p] = Answer(@, InternalError)]
          /\ UNCHANGED history
    /\ UNCHANGED <<tools, nextId, points, nreq, deleted_ok, stale>>

\* crud.create_search_history, db.add + db.commit + db.refresh, then
\* main.semantic_search returns (hist_ok: the row was committed)
create_search_history_commit(p) ==
    /\ proc[p].pc = "history_commit"
    /\ \/ /\ history' = Append(history, [query |-> proc[p].query, results |-> proc[p].history_results])
          /\ proc' = [proc EXCEPT ![p] =
                 Answer([@ EXCEPT !.hist_ok = TRUE], semantic_search_result(proc[p].valid_results))]
          /\ UNCHANGED faults
       \/ \* the commit raises: except Exception, rollback, return None
          /\ Fails
          /\ proc' = [proc EXCEPT ![p] = Answer(@, semantic_search_result(proc[p].valid_results))]
          /\ UNCHANGED history
       \/ \* db.refresh(db_history) raises after the commit: except Exception, return None
          /\ Fails
          /\ history' = Append(history, [query |-> proc[p].query, results |-> proc[p].history_results])
          /\ proc' = [proc EXCEPT ![p] =
                 Answer([@ EXCEPT !.hist_ok = TRUE, !.err = "Exception"],
                        semantic_search_result(proc[p].valid_results))]
    /\ UNCHANGED <<tools, nextId, points, nreq, deleted_ok, stale>>

\* ------------------------------------------------------------ ListHistory
\* the rows of search_history newest first (in-memory copies of the rows)
NewestFirst ==
    [k \in 1..Len(history) |->
        [id |-> Len(history) + 1 - k,
         query |-> history[Len(history) + 1 - k].query,
         results |-> history[Len(history) + 1 - k].results]]

\* .offset(skip).limit(limit).all()
Page(rows, skip, limit) ==
    SubSeq(rows, skip + 1, Min(Len(rows), skip + limit))

\* `history_item.results = valid_results` at the end of each item's loop,
\* for the items whose results have all been looked at
RECURSIVE Settle(_)
Settle(rec) ==
    IF rec.i <= Len(rec.history_items) /\ rec.j > Len(rec.history_items[rec.i].results)
    THEN Settle([rec EXCEPT !.history_items[rec.i].results = rec.valid_results,
                            !.valid_results = <<>>, !.i = rec.i + 1, !.j = 1])
    ELSE rec

\* main.get_search_history returns the items once the loops are over
Listed(rec) ==
    IF rec.i > Len(rec.history_items)
    THEN Answer(rec, Response(200, "", rec.history_items))
    ELSE rec

\* mutant: get_search_history commits the session, so the results assigned to
\* the items whose loop is over are written to their rows
get_search_history_stored_committed(rec) ==
    [k \in 1..Len(history) |->
        IF \E m \in 1..Len(rec.history_items) : m < rec.i /\ rec.history_items[m].id = k
        THEN [history[k] EXCEPT !.results =
                 rec.history_items[CHOOSE m \in 1..Len(rec.history_items) :
                                       rec.history_items[m].id = k].results]
        ELSE history[k]]

\* what get_search_history leaves in table search_history: the session is
\* closed without a commit, so the assignments to history_item.results are dropped
get_search_history_stored(rec) == history

\* crud.get_search_history, the query for the page of items
get_search_history_query(p, skip, limit) ==
    /\ Accept(p)
    /\ nreq' = nreq + 1
    /\ LET me == [Idle EXCEPT !.op = "list", !.pc = "list_filter", !.seen_deleted = deleted_ok] IN
       \/ /\ LET rec == Listed(Settle([me EXCEPT !.history_items = Page(NewestFirst, skip, limit)]))
             IN /\ proc' = [proc EXCEPT ![p] = rec]
                /\ history' = get_search_history_stored(rec)
          /\ UNCHANGED faults
       \/ \* except Exception: return []
          /\ Fails
          /\ proc' = [proc EXCEPT ![p] = Answer([me EXCEPT !.err = "Exception"], Response(200, "", <<>>))]
          /\ UNCHANGED history
    /\ UNCHANGED <<tools, nextId, points, deleted_ok, stale>>

\* crud.get_search_history, one turn of `for result in history_item.results`
get_search_history_filter(p) ==
    /\ proc[p].pc = "list_filter"
    /\ LET me == proc[p]
           result == me.history_items[me.i].results[me.j]
       IN \E ok \in CallOutcomes :
          LET valid == IF ok /\ FilterKeeps(result)
                       THEN Append(me.valid_results, result) ELSE me.valid_results
              rec == Listed(Settle([me EXCEPT !.valid_results = valid, !.j = me.j + 1]))
          IN /\ faults' = After(ok)
             /\ proc' = [proc EXCEPT ![p] = rec]
             /\ history' = get_search_history_stored(rec)
    /\ UNCHANGED <<tools, nextId, points, nreq, deleted_ok, stale>>

\* ------------------------------------------------------------ environment
\* the response has been delivered: the slot is free again
Return(p) ==
    /\ proc[p].pc = "done"
    /\ proc' = [proc EXCEPT ![p] = Idle]
    /\ UNCHANGED <<tools, nextId, history, points, faults, nreq, deleted_ok, stale>>

\* from here on no call to a store or to the embedding model fails
StopFaults ==
    /\ faults > 0
    /\ faults' = 0
    /\ UNCHANGED <<tools, nextId, history, points, proc, nreq, deleted_ok, stale>>

\* ------------------------------------------------------------------- Next
\* a request in flight takes its next step
Continue(p) ==
    \/ create_tool_refresh(p)
    \/ create_tool_upsert(p)
    \/ update_tool_commit(p)
    \/ update_tool_refresh(p)
    \/ update_tool_upsert(p)
    \/ delete_tool_db_commit(p)
    \/ delete_tool_db_vector(p)
    \/ semantic_search_filter(p)
    \/ create_search_history_filter(p)
    \/ create_search_history_commit(p)
    \/ get_search_history_filter(p)
    \/ Return(p)

Next ==
    \/ \E p \in Procs : \E tool \in ToolBase : create_tool_commit(p, tool)
    \/ \E p \in Procs : \E id \in Ids : \E tool \in ToolBase : update_tool_query(p, id, tool)
    \/ \E p \in Procs : \E id \in Ids : delete_tool_db_query(p, id)
    \/ \E p \in Procs : \E q \in Queries : \E limit \in 1..MaxLimit : semantic_search_query(p, q, limit)
    \/ \E p \in Procs : \E skip \in 0..1 : \E limit \in 1..MaxLimit : get_search_history_query(p, skip, limit)
    \/ \E p \in Procs : Continue(p)
    \/ StopFaults

Spec == Init /\ [][Next]_vars

\* main.lifespan at a start of the application, once the requests of the
\* stopped process have been served (uvicorn shuts down gracefully): init_db
\* drops and recreates the tables and restarts the sequences at 1; the
\* collection exists and is kept (vector_db.py, get_collection succeeds)
lifespan ==
    /\ \A p \in Procs : proc[p].pc \in {"idle", "done"}
    /\ tools' = <<>>
    /\ nextId' = 1
    /\ history' = <<>>
    /\ proc' = [p \in Procs |-> Idle]
    /\ deleted_ok' = {}
    /\ stale' = DOMAIN points
    /\ UNCHANGED <<points, faults, nreq>>

NextRestart == Next \/ lifespan

\* the application with restarts
SpecRestart == Init /\ [][NextRestart]_vars

\* every request in flight keeps running (uvicorn serves each request to its
\* end); nothing obliges a client to send another request
FairSpec == Spec /\ \A p \in Procs : WF_vars(Continue(p))

\* ================================================================= claims
Done(p, op) == proc[p].pc = "done" /\ proc[p].op = op

\* the tool ids a search response / a history listing carries
ReturnedIds(p) ==
    IF proc[p].op = "search"
    THEN {proc[p].resp.body[k].id : k \in 1..Len(proc[p].resp.body)}
    ELSE UNION { {proc[p].resp.body[k].results[m].id : m \in 1..Len(proc[p].resp.body[k].results)}
                 : k \in 1..Len(proc[p].resp.body) }

\* the ids stored in the rows of search_history
StoredIds == UNION { {history[k].results[m].id : m \in 1..Len(history[k].results)} : k \in 1..Len(history) }

\* a DELETE of this id has committed in the record store
DeleteCommitted(id) ==
    \/ id \in deleted_ok
    \/ \E q \in Procs : proc[q].op = "delete" /\ proc[q].tool_id = id /\ proc[q].committed

\* C1: a search or a history listing that starts after DELETE of a tool was
\* answered with success never returns a result with that tool's id, whatever
\* the vector index and the stored history still hold for it.
C1_ReadAfterDelete ==
    \A p \in Procs :
        (Done(p, "search") \/ Done(p, "list")) => ReturnedIds(p) \cap proc[p].seen_deleted = {}

\* C1 witness: a history listing answered after a successful DELETE while the
\* index still holds the deleted tool's point and a stored history row still
\* holds it among its results.
C1_Witness ==
    \E p \in Procs : \E id \in Ids :
        /\ Done(p, "list") /\ proc[p].resp.body # <<>>
        /\ id \in proc[p].seen_deleted
        /\ id \in DOMAIN points
        /\ id \in StoredIds

\* a search answered after a successful DELETE whose index query returned the
\* stale point of the deleted tool
C1_SearchCase ==
    \E p \in Procs : \E id \in Ids :
        /\ Done(p, "search")
        /\ id \in proc[p].seen_deleted
        /\ \E k \in 1..Len(proc[p].search_results) : proc[p].search_results[k].id = id

\* no two rows of table tools hold the same name
NameUnique == \A a, b \in DOMAIN tools : a # b => tools[a].name # tools[b].name

\* two creates of one name have both inserted their row
BothInserted(p, q) ==
    /\ p # q
    /\ proc[p].op = "create" /\ proc[q].op = "create"
    /\ proc[p].tool.name = proc[q].tool.name
    /\ proc[p].committed /\ proc[q].committed

C3_DegradedCreate ==
    /\ [](\A p \in Procs : Done(p, "create") /\ proc[p].vec_called /\ ~proc[p].vec_ok =>
            /\ proc[p].resp.status = 201
            /\ proc[p].resp.body = <<ToolResponse(proc[p].tool_id, proc[p].db_tool)>>
            /\ get_tool(proc[p].tool_id) \/ DeleteCommitted(proc[p].tool_id))
    /\ [][\A p \in Procs :
            (proc[p].pc = "create_upsert" /\ proc'[p].pc = "done" /\ ~proc'[p].vec_ok)
            => tools' = tools /\ points' = points]_vars

\* C3 witness: a create answered after its upsert failed; the row is in the
\* record store and the index has no point for it.
C3_Witness ==
    \E p \in Procs :
        /\ Done(p, "create") /\ proc[p].vec_called /\ ~proc[p].vec_ok
        /\ get_tool(proc[p].tool_id)
        /\ proc[p].tool_id \notin DOMAIN points

\* C4: a search whose query could not be embedded does not answer with a
\* successful response.
C4_EmbeddingFailsLoudly ==
    \A p \in Procs : Done(p, "search") /\ proc[p].err = "Embedding" => proc[p].resp.status # 200

\* C5: the answer of an update of a missing id and the answer of an update
\* whose name collides with another tool differ.
C5_UpdateErrorsDistinct ==
    \A p, q \in Procs :
        /\ Done(p, "update") /\ proc[p].err = "NotFound"
        /\ Done(q, "update") /\ proc[q].err = "IntegrityError"
        => proc[p].resp # proc[q].resp

\* C6: a create or an update whose record-store call failed for another reason
\* than the unique index or a missing row answers neither with the
\* duplicate-name response nor with the not-found response.
C6_UnexpectedFailureIsInternal ==
    \A p \in Procs :
        (Done(p, "create") \/ Done(p, "update")) /\ proc[p].err = "Exception"
        => proc[p].resp \notin {CreateRejected, UpdateRejected}

\* a is b with some entries left out, in the same order
IsSubSeq(a, b) ==
    \E f \in [1..Len(a) -> 1..Len(b)] :
        /\ \A x, y \in 1..Len(a) : x < y => f[x] < f[y]
        /\ \A x \in 1..Len(a) : a[x] = b[f[x]]

\* the step is one of a history listing
ListStep == \E p \in Procs : proc'[p] # proc[p] /\ (proc[p].op = "list" \/ proc'[p].op = "list")

\* C7: a history listing returns each row's stored results without those of
\* the tools deleted before it started (and, when no call failed, with all of
\* those whose tool exists), and no step of a listing changes table
\* search_history.
C7_ViewOnlyHistory ==
    /\ [](\A p \in Procs : Done(p, "list") =>
            \A k \in 1..Len(proc[p].resp.body) :
               LET item == proc[p].resp.body[k] IN
               /\ IsSubSeq(item.results, history[item.id].results)
               /\ \A m \in 1..Len(item.results) : item.results[m].id \notin proc[p].seen_deleted
               /\ faults = MaxFaults =>
                    \A m \in 1..Len(history[item.id].results) :
                       get_tool(history[item.id].results[m].id) =>
                          \E n \in 1..Len(item.results) : item.results[n] = history[item.id].results[m])
    /\ [][ListStep => history' = history]_vars

\* C7 witness: a listing answered with a row from which the entry of a tool
\* deleted before it started is left out, the stored row still holding it.
C7_Witness ==
    \E p \in Procs : Done(p, "list") /\
        \E k \in 1..Len(proc[p].resp.body) :
           LET item == proc[p].resp.body[k] IN
           /\ Len(item.results) < Len(history[item.id].results)
           /\ \E m \in 1..Len(history[item.id].results) :
                 history[item.id].results[m].id \in proc[p].seen_deleted

\* the point of a tool id mirrors the row: same fields, or both absent
IndexMatches(id) ==
    IF get_tool(id)
    THEN id \in DOMAIN points /\ points[id] = Payload(id, tools[id])
    ELSE id \notin DOMAIN points

\* C8: once an update and another update or a delete of the same id, served
\* together, have both committed and answered, and no call has failed, the
\* index mirrors the row the last commit left.
C8_Convergence ==
    \A p, q \in Procs :
        /\ p # q
        /\ Done(p, "update") /\ proc[p].committed /\ proc[p].vec_called
        /\ (Done(q, "update") /\ proc[q].vec_called) \/ Done(q, "delete")
        /\ proc[q].committed
        /\ proc[p].tool_id = proc[q].tool_id
        /\ faults = MaxFaults
        => IndexMatches(proc[p].tool_id)

\* the two stores hold the same ids
SameIds == DOMAIN points = DOMAIN tools

\* a create, update or delete has just answered although its index call failed
IndexWriteFailed ==
    \E p \in Procs :
        /\ proc[p].pc = "done" /\ proc[p].op \in {"create", "update", "delete"}
        /\ proc[p].vec_called /\ ~proc[p].vec_ok

\* C9: once failures have stopped, the divergence a failed index write left is
\* eventually repaired: the ids in the index eventually equal the ids in
\* table tools.
C9_EventualReconciliation == (faults = 0 /\ IndexWriteFailed) ~> SameIds

\* a create, update or delete issues its call to the vector index in this step
IndexWrite(p) ==
    /\ proc'[p].op \in {"create", "update", "delete"}
    /\ proc'[p].vec_called /\ ~proc[p].vec_called

\* C10: a create, update or delete calls the vector index only in a step after
\* the one in which its record-store commit succeeded, and the index changes
\* only in such a step.
C10_WriteOrder ==
    /\ [][\A p \in Procs : IndexWrite(p) => proc[p].committed /\ proc[p].op = proc'[p].op]_vars
    /\ [][points' # points => \E p \in Procs : IndexWrite(p)]_vars

\* C10 witness: an update whose UPDATE changed the row has made its call to the
\* index after the commit, while a delete of another tool waits between its
\* commit and its call to the index.
C10_Witness ==
    \E p, q \in Procs :
        /\ Done(p, "update") /\ proc[p].committed /\ proc[p].vec_called /\ proc[p].vec_ok
        /\ get_tool(proc[p].tool_id) /\ tools[proc[p].tool_id] = proc[p].tool
        /\ proc[p].tool_id \in DOMAIN points
        /\ points[proc[p].tool_id] = Payload(proc[p].tool_id, proc[p].tool)
        /\ proc[q].pc = "delete_vector" /\ proc[q].committed /\ ~proc[q].vec_called
        /\ proc[q].tool_id \in DOMAIN points

\* the request has committed a change of table tools: its INSERT or DELETE, or
\* an UPDATE that differed from the row it had loaded
Wrote(p) ==
    /\ proc[p].committed
    /\ proc[p].op = "update" => proc[p].tool # proc[p].db_tool

\* the answers that tell the caller the name is taken or the tool is missing
Rejections == {CreateRejected, UpdateRejected, DeleteRejected}

\* C11: a create answered with the duplicate-name response and an update or
\* delete answered with the not-found / duplicate-name response has changed
\* nothing: the request has committed no change of table tools (and so has
\* not reached its call to the vector index).
C11_FailedOpsNoEffect ==
    \A p \in Procs :
        proc[p].pc = "done" /\ proc[p].op \in {"create", "update", "delete"}
        /\ proc[p].resp \in Rejections
        => ~Wrote(p) /\ ~proc[p].vec_called

\* the same for the requests that were rejected by the unique index or for a
\* missing row, and not by another failure
C11_NamedCausesNoEffect ==
    \A p \in Procs :
        proc[p].pc = "done" /\ proc[p].err \in {"IntegrityError", "NotFound"}
        => ~Wrote(p) /\ ~proc[p].vec_called

\* C12: when the deletion from the vector index fails after the DELETE has
\* committed, the delete still answers 200 "Tool deleted successfully", the
\* row stays removed, and the failing step changes neither store (the stale
\* point is left in the index).
C12_DegradedDelete ==
    /\ [](\A p \in Procs : Done(p, "delete") /\ proc[p].vec_called /\ ~proc[p].vec_ok =>
            /\ proc[p].resp = DeleteDone
            /\ proc[p].committed
            /\ ~get_tool(proc[p].tool_id))
    /\ [][\A p \in Procs :
            (proc[p].pc = "delete_vector" /\ proc'[p].pc = "done" /\ ~proc'[p].vec_ok)
            => tools' = tools /\ points' = points]_vars

\* C12 witness: a delete answered after its call to the index failed; the row
\* is gone and the index still holds the point written for it.
C12_Witness ==
    \E p \in Procs :
        /\ Done(p, "delete") /\ proc[p].vec_called /\ ~proc[p].vec_ok
        /\ ~get_tool(proc[p].tool_id)
        /\ proc[p].tool_id \in DOMAIN points
        /\ points[proc[p].tool_id] = Payload(proc[p].tool_id, proc[p].db_tool)

\* C13: when the commit of the history row fails, the search answers 200 with
\* the filtered results, exactly the answer of the step in which the commit
\* succeeds, and table search_history is unchanged.
C13_HistoryBestEffort ==
    [][\A p \in Procs :
          (proc[p].pc = "history_commit" /\ proc'[p].pc = "done" /\ ~proc'[p].hist_ok)
          => /\ history' = history
             /\ proc'[p].resp = Response(200, "", proc[p].valid_results)]_vars

\* C13 witness: a search answered with a result although its history row
\* could not be written.
C13_Witness ==
    \E p \in Procs :
        /\ Done(p, "search") /\ ~proc[p].hist_ok
        /\ proc[p].resp.status = 200 /\ proc[p].resp.body # <<>>
        /\ proc[p].resp.body = proc[p].valid_results
        /\ \A k \in 1..Len(history) : history[k].query # proc[p].query

\* C14: whenever a search is about to commit its history row, every result
\* of the row references a tool that is in table tools: the commit, which may
\* happen at any such moment, stores only tools that exist when it happens.
C14_HistoryWriteTimeValidity ==
    \A p \in Procs :
        proc[p].pc = "history_commit" =>
            \A k \in 1..Len(proc[p].history_results) : get_tool(proc[p].history_results[k].id)

\* C15: every result of a search response has a score at or above the floor
\* 0.3, however few results the response has.
C15_ScoreFloor ==
    \A p \in Procs : Done(p, "search") =>
        \A k \in 1..Len(proc[p].resp.body) : proc[p].resp.body[k].score >= ScoreFloor

\* C15 witness: a search answered with no result at all while the index holds
\* the point of an existing tool that scores below the floor for the query.
C15_Witness ==
    \E p \in Procs : \E id \in DOMAIN points :
        /\ Done(p, "search") /\ proc[p].vec_ok
        /\ proc[p].search_results = <<>> /\ proc[p].resp.body = <<>>
        /\ get_tool(id)
        /\ Score(proc[p].query, points[id]) < ScoreFloor

Acknowledged(q) ==
    /\ Done(q, "update") /\ proc[q].resp.status = 200
    /\ get_tool(proc[q].tool_id) /\ tools[proc[q].tool_id] = proc[q].tool
    /\ \A o \in Procs :
          o # q /\ proc[o].op \in {"update", "delete"} /\ proc[o].tool_id = proc[q].tool_id
          => proc[o].pc = "done"

\* C17: a search that starts once an update has been answered with success
\* gets, for the updated id, a candidate that carries the update's name,
\* description and tags.
C17_UpdateVisibleToSearch ==
    [][\A p, q \in Procs :
          Acknowledged(q) /\ proc[p].pc = "idle" /\ proc'[p].op = "search" =>
             \A k \in 1..Len(proc'[p].search_results) :
                LET r == proc'[p].search_results[k] IN
                r.id = proc[q].tool_id =>
                   /\ r.name = proc[q].tool.name
                   /\ r.description = proc[q].tool.description
                   /\ r.tags = proc[q].tool.tags]_vars

\* C18: over any requests and restarts of the application, no result of a
\* search response comes from a point written before the last start, that is
\* from the payload of an earlier tool that had the id (the results that come
\* from the points written since carry a version of the id's current tool).
C18_NoIdReuse ==
    \A p \in Procs : Done(p, "search") =>
        \A k \in 1..Len(proc[p].resp.body) : proc[p].resp.body[k].id \notin proc[p].seen_stale

\* a search answered with the name of an earlier tool for an id whose row,
\* inserted since the last start and still at its create, holds another name
C18_OtherToolCase ==
    \E p, q \in Procs : \E k \in 1..Len(proc[p].resp.body) :
        /\ Done(p, "search") /\ proc[q].op = "create" /\ proc[q].committed
        /\ proc[p].resp.body[k].id = proc[q].tool_id
        /\ proc[p].resp.body[k].id \in proc[p].seen_stale
        /\ get_tool(proc[q].tool_id) /\ tools[proc[q].tool_id] = proc[q].tool
        /\ proc[p].resp.body[k].name # proc[q].tool.name

====
